---- MODULE Spec2Model ----
(***************************************************************************)
(* Firmware-version discovery and fingerprint matching of                  *)
(* selfdrive/car/fw_versions.py.                                           *)
(*                                                                         *)
(* get_fw_versions: planner (lines 155-180), orchestration loop            *)
(* (lines 182-194), CarFw list construction (lines 196-210).               *)
(* match_fw_to_car: lines 120-151.                                         *)
(*                                                                         *)
(* Python dicts are sequences of <<key, value>> pairs in insertion order.  *)
(* Python's None is the integer None == -1 (sub-addresses are 0..255).     *)
(* Byte strings of firmware versions are opaque tokens (small integers).   *)
(***************************************************************************)
EXTENDS Integers, Sequences, FiniteSets, TLC

VARIABLES
  pc,             \* control point of the modelled call
  versions,       \* get_fw_versions: the brand-keyed table (line 162)
  extra,          \* get_fw_versions: the extra argument
  timeout,        \* get_fw_versions: the timeout argument (units of 0.1 s)
  ecu_types,      \* get_fw_versions: dict (addr, sub_addr) -> ecu_type
  addrs,          \* get_fw_versions: the plan, a list of groups of (brand, addr, sub_addr)
  parallel_addrs, \* get_fw_versions: the group of the addresses without sub-address
  ei,             \* index of the next (brand, ecu) pair of the loops of lines 166-168
  n,              \* index of the next iteration of the loop nest of lines 183-185
  fw_versions,    \* get_fw_versions: dict (addr, sub_addr) -> version
  car_fw,         \* get_fw_versions: the returned list of CarFw messages
  last_call,      \* history: the latest transport call, <<>> before the first
  attempts,       \* history: transport calls made per iteration of the loop nest
  returned,       \* history: per key, the latest successful reply that held it
  overwrote,      \* history: some reply replaced a version by a different one
  reference,      \* history: the table as get_attr_from_cars returned it (line 162)
  FW_VERSIONS,    \* match_fw_to_car: the module-level fingerprint table
  fw_vers,        \* match_fw_to_car: the list of CarFw messages passed in
  results,        \* match_fw_to_car: the candidate sets returned so far
  inputs0         \* history: <<fw_vers, FW_VERSIONS>> as first passed

vars == <<pc, versions, extra, timeout, ecu_types, addrs, parallel_addrs, ei, n, fw_versions, car_fw,
          last_call, attempts, returned, overwrote, reference,
          FW_VERSIONS, fw_vers, results, inputs0>>

discoverVars == <<versions, extra, timeout, ecu_types, addrs, parallel_addrs, ei, n, fw_versions, car_fw,
                  last_call, attempts, returned, overwrote, reference>>

matchVars == <<FW_VERSIONS, fw_vers, results, inputs0>>

None == -1

Min(a, b) == IF a < b THEN a ELSE b

(***************************************************************************)
(* Python dict and list primitives.                                        *)
(***************************************************************************)

\* Python tuple equality: tuples of different lengths are unequal.
TupleEq(a, b) == Len(a) = Len(b) /\ \A m \in 1..Len(a) : a[m] = b[m]

\* k in d
HasKey(d, k) == \E m \in 1..Len(d) : TupleEq(d[m][1], k)

\* d[k], for k in d
Get(d, k) == d[CHOOSE m \in 1..Len(d) : TupleEq(d[m][1], k)][2]

\* d[k] = v: an existing key keeps its position
Put(d, k, v) ==
  IF HasKey(d, k)
    THEN [m \in 1..Len(d) |-> IF TupleEq(d[m][1], k) THEN <<k, v>> ELSE d[m]]
    ELSE Append(d, <<k, v>>)

\* x in l, for a list l
InList(l, x) == \E m \in 1..Len(l) : l[m] = x

\* the keys of a dict, as a set
Keys(d) == {d[m][1] : m \in 1..Len(d)}

(***************************************************************************)
(* The request catalog, lines 18-112.  A byte string is a sequence of      *)
(* integers 0..255.  Values of panda.python.uds used below:                *)
(* SERVICE_TYPE.TESTER_PRESENT = 0x3E, DIAGNOSTIC_SESSION_CONTROL = 0x10,  *)
(* READ_DATA_BY_IDENTIFIER = 0x22; SESSION_TYPE.DEFAULT = 1,               *)
(* EXTENDED_DIAGNOSTIC = 3; DATA_IDENTIFIER_TYPE                           *)
(* .APPLICATION_SOFTWARE_IDENTIFICATION = 0xF181,                          *)
(* .VEHICLE_MANUFACTURER_SPARE_PART_NUMBER = 0xF187.                       *)
(***************************************************************************)

\* struct.pack("!H", val): two bytes, big-endian
p16(val) == <<(val \div 256) % 256, val % 256>>

TESTER_PRESENT_REQUEST == <<62, 0>>
TESTER_PRESENT_RESPONSE == <<62 + 64, 0>>

SHORT_TESTER_PRESENT_REQUEST == <<62>>
SHORT_TESTER_PRESENT_RESPONSE == <<62 + 64>>

DEFAULT_DIAGNOSTIC_REQUEST == <<16, 1>>
DEFAULT_DIAGNOSTIC_RESPONSE == <<16 + 64, 1, 0, 50, 1, 244>>

EXTENDED_DIAGNOSTIC_REQUEST == <<16, 3>>
EXTENDED_DIAGNOSTIC_RESPONSE == <<16 + 64, 3, 0, 50, 1, 244>>

UDS_VERSION_REQUEST == <<34>> \o p16(61825)
UDS_VERSION_RESPONSE == <<34 + 64>> \o p16(61825)

HYUNDAI_VERSION_REQUEST_SHORT == <<34>> \o p16(61856)
HYUNDAI_VERSION_REQUEST_LONG == <<34>> \o p16(61696)
HYUNDAI_VERSION_REQUEST_MULTI ==
  <<34>> \o p16(61831) \o p16(61825) \o p16(61696) \o p16(61856)
HYUNDAI_VERSION_RESPONSE == <<34 + 64>>

TOYOTA_VERSION_REQUEST == <<26, 136, 1>>
TOYOTA_VERSION_RESPONSE == <<90, 136, 1>>

OBD_VERSION_REQUEST == <<9, 4>>
OBD_VERSION_RESPONSE == <<73, 4>>

SUBARU_VERSION_REQUEST == <<34, 241, 130>>
SUBARU_VERSION_RESPONSE == <<98, 241, 130>>

\* each entry: <<brand, request, response>>
REQUESTS == <<
  <<"hyundai", <<HYUNDAI_VERSION_REQUEST_SHORT>>, <<HYUNDAI_VERSION_RESPONSE>> >>,
  <<"hyundai", <<HYUNDAI_VERSION_REQUEST_LONG>>, <<HYUNDAI_VERSION_RESPONSE>> >>,
  <<"hyundai", <<HYUNDAI_VERSION_REQUEST_MULTI>>, <<HYUNDAI_VERSION_RESPONSE>> >>,
  <<"honda", <<UDS_VERSION_REQUEST>>, <<UDS_VERSION_RESPONSE>> >>,
  <<"toyota", <<SHORT_TESTER_PRESENT_REQUEST, TOYOTA_VERSION_REQUEST>>,
              <<SHORT_TESTER_PRESENT_RESPONSE, TOYOTA_VERSION_RESPONSE>> >>,
  <<"toyota", <<SHORT_TESTER_PRESENT_REQUEST, OBD_VERSION_REQUEST>>,
              <<SHORT_TESTER_PRESENT_RESPONSE, OBD_VERSION_RESPONSE>> >>,
  <<"toyota", <<TESTER_PRESENT_REQUEST, DEFAULT_DIAGNOSTIC_REQUEST,
                EXTENDED_DIAGNOSTIC_REQUEST, UDS_VERSION_REQUEST>>,
              <<TESTER_PRESENT_RESPONSE, DEFAULT_DIAGNOSTIC_RESPONSE,
                EXTENDED_DIAGNOSTIC_RESPONSE, UDS_VERSION_RESPONSE>> >>,
  <<"subaru", <<TESTER_PRESENT_REQUEST, SUBARU_VERSION_REQUEST>>,
              <<TESTER_PRESENT_RESPONSE, SUBARU_VERSION_RESPONSE>> >>
>>

\* the default chunk size of chunks(l, n=128)
ChunkSize == 128

\* chunks with the slice l[i:i + n + 1]: a chunk takes the first element of the next
chunks_Overlap(l, size) ==
  [c \in 1..((Len(l) + size - 1) \div size) |->
     SubSeq(l, (c - 1) * size + 1, Min(c * size + 1, Len(l)))]

\* chunks(l, n): the slices l[i:i + n] for i in range(0, len(l), n)
chunks(l, size) ==
  [c \in 1..((Len(l) + size - 1) \div size) |->
     SubSeq(l, (c - 1) * size + 1, Min(c * size, Len(l)))]

(***************************************************************************)
(* get_fw_versions, the planner: lines 155-180.                            *)
(* A table is a dict brand -> dict model -> dict ecu -> versions, with     *)
(* ecu = <<ecu_type, addr, sub_addr>>.                                     *)
(***************************************************************************)

\* versions[brand] = v on the brand-keyed dict: an existing brand keeps its position
PutBrand(d, brand, v) ==
  IF \E m \in 1..Len(d) : d[m][1] = brand
    THEN [m \in 1..Len(d) |-> IF d[m][1] = brand THEN <<brand, v>> ELSE d[m]]
    ELSE Append(d, <<brand, v>>)

\* versions.update(extra), line 164: a brand already present is replaced whole
RECURSIVE DictUpdate(_, _)
DictUpdate(d, e) ==
  IF e = <<>> THEN d
  ELSE DictUpdate(PutBrand(d, e[1][1], e[1][2]), Tail(e))

NoExtra == <<"None">>

\* lines 162-164
MergedVersions(table, ex) ==
  IF ex # NoExtra THEN DictUpdate(table, ex) ELSE table

\* the (brand, ecu) pairs in the iteration order of lines 166-168
RECURSIVE EcusOfModels(_, _)
EcusOfModels(brand, models) ==
  IF models = <<>> THEN <<>>
  ELSE [m \in 1..Len(models[1][2]) |-> <<brand, models[1][2][m][1]>>]
       \o EcusOfModels(brand, Tail(models))

RECURSIVE EcusOfBrands(_)
EcusOfBrands(vs) ==
  IF vs = <<>> THEN <<>>
  ELSE EcusOfModels(vs[1][1], vs[1][2]) \o EcusOfBrands(Tail(vs))

\* PlanStep with line 177 testing "a not in addrs": the singleton [a] is never found
PlanStep_TestsBareTriple(st, brand, ecu) ==
  LET a == <<brand, ecu[2], ecu[3]>>
      types == Put(st.ecu_types, <<ecu[2], ecu[3]>>, ecu[1])
  IN IF ecu[3] = None
       THEN [ecu_types |-> types,
             parallel_addrs |-> IF ~InList(st.parallel_addrs, a)
                                  THEN Append(st.parallel_addrs, a)
                                  ELSE st.parallel_addrs,
             addrs |-> st.addrs]
       ELSE [ecu_types |-> types,
             parallel_addrs |-> st.parallel_addrs,
             addrs |-> IF ~InList(st.addrs, a)
                         THEN Append(st.addrs, <<a>>)
                         ELSE st.addrs]

\* PlanStep without the branch of lines 176-178: every address joins the parallel group
PlanStep_AllParallel(st, brand, ecu) ==
  LET a == <<brand, ecu[2], ecu[3]>>
  IN [ecu_types |-> Put(st.ecu_types, <<ecu[2], ecu[3]>>, ecu[1]),
      parallel_addrs |-> IF ~InList(st.parallel_addrs, a)
                           THEN Append(st.parallel_addrs, a)
                           ELSE st.parallel_addrs,
      addrs |-> st.addrs]

\* the body of the innermost loop, lines 169-178, on the planner's three locals
PlanStep(st, brand, ecu) ==
  LET ecu_type == ecu[1]
      addr == ecu[2]
      sub_addr == ecu[3]
      a == <<brand, addr, sub_addr>>
      types == IF ~HasKey(st.ecu_types, a)
                 THEN Put(st.ecu_types, <<addr, sub_addr>>, ecu_type)
                 ELSE st.ecu_types
  IN IF sub_addr = None
       THEN [ecu_types |-> types,
             parallel_addrs |-> IF ~InList(st.parallel_addrs, a)
                                  THEN Append(st.parallel_addrs, a)
                                  ELSE st.parallel_addrs,
             addrs |-> st.addrs]
       ELSE [ecu_types |-> types,
             parallel_addrs |-> st.parallel_addrs,
             addrs |-> IF ~InList(st.addrs, <<a>>)
                         THEN Append(st.addrs, <<a>>)
                         ELSE st.addrs]

\* PlanOf without line 180: the parallel group is never put into the plan
PlanOf_NoInsert(parallel, singles) == singles

\* PlanOf with addrs.append(parallel_addrs): the parallel group comes last
PlanOf_ParallelLast(parallel, singles) == Append(singles, parallel)

\* PlanOf that inserts the parallel group only when it is not empty
PlanOf_SkipEmpty(parallel, singles) ==
  IF parallel = <<>> THEN singles ELSE <<parallel>> \o singles

\* addrs.insert(0, parallel_addrs), line 180
PlanOf(parallel, singles) == <<parallel>> \o singles

(***************************************************************************)
(* get_fw_versions, the orchestration loop: lines 182-194.                 *)
(* The loop nest "for i, addr / for addr_chunk / for brand, request,       *)
(* response" runs its iterations in lexicographic order; Iterations lists  *)
(* them as <<i, c, r>>: group index i (from 0, as enumerate gives it),     *)
(* chunk number c and catalog entry number r (both from 1).  The           *)
(* assignment of line 187 rebinds the name addrs only; the list being      *)
(* iterated is the plan.                                                   *)
(***************************************************************************)

GroupIterations(i, group) ==
  [m \in 1..(Len(chunks(group, ChunkSize)) * Len(REQUESTS)) |->
     <<i, ((m - 1) \div Len(REQUESTS)) + 1, ((m - 1) % Len(REQUESTS)) + 1>>]

RECURSIVE IterationsFrom(_, _)
IterationsFrom(plan, i) ==
  IF i >= Len(plan) THEN <<>>
  ELSE GroupIterations(i, plan[i + 1]) \o IterationsFrom(plan, i + 1)

Iterations(plan) == IterationsFrom(plan, 0)

\* FilterChunk without the wildcard: only the addresses of the entry's own brand
FilterChunk_BrandOnly(addr_chunk, brand) ==
  LET kept == SelectSeq(addr_chunk, LAMBDA x : x[1] = brand)
  IN [m \in 1..Len(kept) |-> <<kept[m][2], kept[m][3]>>]

\* line 187: [(a, s) for (b, a, s) in addr_chunk if b in (brand, 'any')]
FilterChunk(addr_chunk, brand) ==
  LET kept == SelectSeq(addr_chunk, LAMBDA x : x[1] \in {brand, "any"})
  IN [m \in 1..Len(kept) |-> <<kept[m][2], kept[m][3]>>]

\* the address list of iteration it = <<i, c, r>> of the plan
QueryAddrs(plan, it) ==
  FilterChunk(chunks(plan[it[1] + 1], ChunkSize)[it[2]], REQUESTS[it[3]][1])

\* QueryTimeout with the doubling on every group but the first
QueryTimeout_Swapped(i, base) == IF i = 0 THEN base ELSE 2 * base

\* line 191
QueryTimeout(i, base) == IF i = 0 THEN 2 * base ELSE base

\* Update as setdefault: a key already observed keeps its first version
RECURSIVE Update_KeepFirst(_, _)
Update_KeepFirst(d, data) ==
  IF data = <<>> THEN d
  ELSE Update_KeepFirst(IF HasKey(d, data[1][1]) THEN d
                        ELSE Append(d, data[1]), Tail(data))

\* fw_versions.update(data), line 192
RECURSIVE Update(_, _)
Update(d, data) ==
  IF data = <<>> THEN d
  ELSE Update(Put(d, data[1][1], data[1][2]), Tail(data))

\* NextIteration with a "break" in the except clause: the catalog entries left for
\* the chunk are skipped
NextIteration_Break(m, raised) ==
  IF raised THEN m + 1 + (Len(REQUESTS) - 1 - ((m - 1) % Len(REQUESTS))) ELSE m + 1

\* AfterIteration without the try/except of lines 186 and 193: the exception leaves
\* get_fw_versions
AfterIteration_Propagates(m, total, raised) ==
  IF raised THEN "raised" ELSE IF m > total THEN "build" ELSE "query"

\* the iteration that follows iteration m of the loop nest; the except clause of
\* lines 193-194 only logs, so a raising call is followed by the next iteration too
NextIteration(m, raised) == m + 1

\* the control point after an iteration: the loop goes on, then lines 196-210 run
AfterIteration(m, total, raised) == IF m > total THEN "build" ELSE "query"

(***************************************************************************)
(* The transport, IsoTpParallelQuery(...).get_data(t): it either raises or *)
(* returns a dict from some of the addresses it was given to the version   *)
(* bytes read there.  Only the ECUs on the bus answer.                     *)
(***************************************************************************)

BusAddrs == {1792, 1872, 1792 + ChunkSize}

ReplyVersions == {1, 2}

\* the dict holding f's entries, in the order of the addresses sent
ReplyDict(sent, f) ==
  LET first == SelectSeq([m \in 1..Len(sent) |-> m],
                         LAMBDA m : /\ sent[m] \in DOMAIN f
                                    /\ \A x \in 1..(m - 1) : sent[x] # sent[m])
  IN [m \in 1..Len(first) |-> <<sent[first[m]], f[sent[first[m]]]>>]

Replies(sent) ==
  LET answering == {sent[m] : m \in {x \in 1..Len(sent) : sent[x][1] \in BusAddrs}}
  IN {ReplyDict(sent, f) :
        f \in UNION {[S -> ReplyVersions] : S \in SUBSET answering}}

\* lines 196-210: one CarFw message per entry of fw_versions; capnp's subAddress is a
\* UInt8 that reads 0 when it was not set
RECURSIVE BuildCarFw(_, _)
BuildCarFw(fw, types) ==
  IF fw = <<>> THEN <<>>
  ELSE LET addr == fw[1][1]
           version == fw[1][2]
       IN << [ecu |-> Get(types, addr),
              fwVersion |-> version,
              address |-> addr[1],
              subAddress |-> IF addr[2] # None THEN addr[2] ELSE 0] >>
          \o BuildCarFw(Tail(fw), types)

(***************************************************************************)
(* Inputs of a discovery run.                                              *)
(***************************************************************************)

\* (brand, ecu) entries of a generated table and its extra probe set together
MaxEcus == 2

\* addresses of the wide probe set beyond one full chunk
ScanOver == 1

\* passes of the scan loop of lines 232-235
ScanPasses == 2

BaseTimeouts == {1, 3}

TableBrands == {"toyota", "honda"}

ModelOf(brand) == IF brand = "toyota" THEN "RAV4" ELSE "CIVIC"

DiscoverEcus ==
  {<<"engine", 1792, None>>, <<"esp", 1792, None>>,
   <<"engine", 1872, 1>>, <<"esp", 1872, 1>>}

\* the lists without repetition of at most max elements of S
ListsOf(S, max) ==
  {g \in UNION {[1..len -> S] : len \in 0..max} :
     \A x, y \in DOMAIN g : x # y => g[x] # g[y]}

\* the table whose (brand, ecu) entries are those of the list l: the brands in the
\* order of their first entry, one model a brand, each ecu expecting versions
TableOf(l, versionList) ==
  LET first == SelectSeq([m \in 1..Len(l) |-> m],
                         LAMBDA m : \A x \in 1..(m - 1) : l[x][1] # l[m][1])
      ecusOf(brand) == SelectSeq(l, LAMBDA x : x[1] = brand)
      fws(brand) == [m \in 1..Len(ecusOf(brand)) |-> <<ecusOf(brand)[m][2], versionList>>]
  IN [m \in 1..Len(first) |->
        <<l[first[m]][1], << <<ModelOf(l[first[m]][1]), fws(l[first[m]][1])>> >> >>]

RefTables(max) == {TableOf(l, <<1>>) : l \in ListsOf(TableBrands \X DiscoverEcus, max)}

\* extra probe sets in the shape of lines 230-236: {brand: {"debug": {ecu: []}}}
ProbeSet(brand, ecus) ==
  << <<brand, << <<"debug", [m \in 1..Len(ecus) |-> <<ecus[m], <<>> >>]>> >> >> >>

\* the last one files a probe under a brand that REQUESTS has no entry for
SmallExtras ==
  {ProbeSet("any", << <<"unknown", 1792, None>> >>),
   ProbeSet("toyota", << <<"unknown", 1872, None>> >>),
   ProbeSet("any", << <<"unknown", 1792, None>> >>)
     \o ProbeSet("gm", << <<"unknown", 1872, None>> >>)}

\* the three keys that pass i of the loop of lines 232-235 adds
ScanKeys(i) ==
  << <<"unknown", 416940273 + i * 256, None>>,
     <<"unknown", 1792 + i, None>>,
     <<"unknown", 1872, i>> >>

\* lines 229-236 with range(256) scaled to range(ScanPasses): the keys of all passes,
\* in the order the loop adds them, filed under {"any": {"debug": ...}}
ScanExtra ==
  ProbeSet("any", [m \in 1..(3 * ScanPasses) |->
                     ScanKeys((m - 1) \div 3)[((m - 1) % 3) + 1]])

\* an extra probe set of one chunk and ScanOver addresses without sub-address
WideExtra ==
  ProbeSet("any", [m \in 1..(ChunkSize + ScanOver) |-> <<"unknown", 1792 + (m - 1), None>>])

DiscoverInputs ==
  (RefTables(MaxEcus) \X {NoExtra})
  \cup (RefTables(MaxEcus - 1) \X SmallExtras)
  \cup {<< <<>>, ScanExtra >>, << <<>>, WideExtra >>}

(***************************************************************************)
(* The discovery run as a state machine.                                   *)
(***************************************************************************)

NoCall == <<>>

IdleMatch ==
  /\ FW_VERSIONS = <<>>
  /\ fw_vers = <<>>
  /\ results = <<>>
  /\ inputs0 = <<>>

Init ==
  /\ pc = "begin"
  /\ \E inp \in DiscoverInputs : versions = inp[1] /\ extra = inp[2]
  /\ reference = versions
  /\ timeout \in BaseTimeouts
  /\ ecu_types = <<>>
  /\ addrs = <<>>
  /\ parallel_addrs = <<>>
  /\ ei = 1
  /\ n = 1
  /\ fw_versions = <<>>
  /\ car_fw = <<>>
  /\ last_call = NoCall
  /\ attempts = <<>>
  /\ returned = <<>>
  /\ overwrote = FALSE
  /\ IdleMatch

\* lines 155-164: the locals are created and the extra probe set is merged
Begin ==
  /\ pc = "begin"
  /\ versions' = MergedVersions(versions, extra)
  /\ ecu_types' = <<>>
  /\ addrs' = <<>>
  /\ parallel_addrs' = <<>>
  /\ ei' = 1
  /\ pc' = "plan"
  /\ UNCHANGED <<reference, extra, timeout, n, fw_versions, car_fw, last_call, attempts,
                 returned, overwrote>>
  /\ UNCHANGED matchVars

\* lines 166-178: one pass of the innermost loop
PlanEcu ==
  /\ pc = "plan"
  /\ ei <= Len(EcusOfBrands(versions))
  /\ LET be == EcusOfBrands(versions)[ei]
         st == PlanStep([ecu_types |-> ecu_types, parallel_addrs |-> parallel_addrs,
                         addrs |-> addrs], be[1], be[2])
     IN /\ ecu_types' = st.ecu_types
        /\ parallel_addrs' = st.parallel_addrs
        /\ addrs' = st.addrs
  /\ ei' = ei + 1
  /\ UNCHANGED <<pc, versions, reference, extra, timeout, n, fw_versions, car_fw, last_call,
                 attempts, returned, overwrote>>
  /\ UNCHANGED matchVars

\* lines 180-182: the parallel group goes first, the loop nest starts
PlanDone ==
  /\ pc = "plan"
  /\ ei > Len(EcusOfBrands(versions))
  /\ addrs' = PlanOf(parallel_addrs, addrs)
  /\ fw_versions' = <<>>
  /\ n' = 1
  /\ attempts' = [m \in 1..Len(Iterations(addrs')) |-> 0]
  /\ pc' = AfterIteration(1, Len(Iterations(addrs')), FALSE)
  /\ UNCHANGED <<versions, reference, extra, timeout, ecu_types, parallel_addrs, ei, car_fw,
                 last_call, returned, overwrote>>
  /\ UNCHANGED matchVars

\* an iteration whose filtered address list is empty: line 189 is false
QuerySkip ==
  /\ pc = "query"
  /\ QueryAddrs(addrs, Iterations(addrs)[n]) = <<>>
  /\ n' = NextIteration(n, FALSE)
  /\ pc' = AfterIteration(n', Len(Iterations(addrs)), FALSE)
  /\ UNCHANGED <<versions, reference, extra, timeout, ecu_types, addrs, parallel_addrs, ei,
                 fw_versions, car_fw,
                 last_call, attempts, returned, overwrote>>
  /\ UNCHANGED matchVars

\* Call with the response prefixes of the first catalog entry, whatever the entry
Call_FirstResponse(it, sent, raised, data) ==
  [it |-> it, addrs |-> sent, request |-> REQUESTS[it[3]][2],
   response |-> REQUESTS[1][3], t |-> QueryTimeout(it[1], timeout),
   raised |-> raised, data |-> data]

\* the call IsoTpParallelQuery(sendcan, logcan, bus, addrs, request, response)
\* .get_data(t) of lines 190-192, as made by iteration it
Call(it, sent, raised, data) ==
  [it |-> it, addrs |-> sent, request |-> REQUESTS[it[3]][2],
   response |-> REQUESTS[it[3]][3], t |-> QueryTimeout(it[1], timeout),
   raised |-> raised, data |-> data]

\* lines 187-192 with a transport that answers
QueryReply ==
  /\ pc = "query"
  /\ LET it == Iterations(addrs)[n]
         sent == QueryAddrs(addrs, it)
     IN /\ sent # <<>>
        /\ \E data \in Replies(sent) :
             /\ fw_versions' = Update(fw_versions, data)
             /\ last_call' = Call(it, sent, FALSE, data)
             /\ returned' = [k \in DOMAIN returned \cup Keys(data) |->
                               IF k \in Keys(data) THEN Get(data, k) ELSE returned[k]]
             /\ overwrote' = (overwrote \/ \E k \in Keys(data) \cap DOMAIN returned :
                                             Get(data, k) # returned[k])
  /\ attempts' = [attempts EXCEPT ![n] = @ + 1]
  /\ n' = NextIteration(n, FALSE)
  /\ pc' = AfterIteration(n', Len(Iterations(addrs)), FALSE)
  /\ UNCHANGED <<versions, reference, extra, timeout, ecu_types, addrs, parallel_addrs, ei, car_fw>>
  /\ UNCHANGED matchVars

\* lines 187-194 with a transport that raises: the except clause logs a warning
QueryRaise ==
  /\ pc = "query"
  /\ LET it == Iterations(addrs)[n]
         sent == QueryAddrs(addrs, it)
     IN /\ sent # <<>>
        /\ last_call' = Call(it, sent, TRUE, <<>>)
  /\ fw_versions' = fw_versions
  /\ attempts' = [attempts EXCEPT ![n] = @ + 1]
  /\ n' = NextIteration(n, TRUE)
  /\ pc' = AfterIteration(n', Len(Iterations(addrs)), TRUE)
  /\ UNCHANGED <<versions, reference, extra, timeout, ecu_types, addrs, parallel_addrs, ei, car_fw,
                 returned, overwrote>>
  /\ UNCHANGED matchVars

\* lines 196-210
Build ==
  /\ pc = "build"
  /\ car_fw' = BuildCarFw(fw_versions, ecu_types)
  /\ pc' = "done"
  /\ UNCHANGED <<versions, reference, extra, timeout, ecu_types, addrs, parallel_addrs, ei, n,
                 fw_versions, last_call, attempts, returned, overwrote>>
  /\ UNCHANGED matchVars

Next == Begin \/ PlanEcu \/ PlanDone \/ QuerySkip \/ QueryReply \/ QueryRaise \/ Build

Spec == Init /\ [][Next]_vars

(***************************************************************************)
(* match_fw_to_car, lines 120-151.                                         *)
(* FW_VERSIONS is a dict model -> dict ecu -> list of versions; the        *)
(* argument is a list of CarFw messages [ecu, fwVersion, address,          *)
(* subAddress].  found_version is None when the dict has no entry.         *)
(***************************************************************************)

\* lines 124-128
RECURSIVE FwVersionsDict(_, _)
FwVersionsDict(fws, d) ==
  IF fws = <<>> THEN d
  ELSE LET fw == fws[1]
           addr == fw.address
           sub_addr == IF fw.subAddress # 0 THEN fw.subAddress ELSE None
       IN FwVersionsDict(Tail(fws), Put(d, <<addr, sub_addr>>, fw.fwVersion))

\* FoundVersion keyed by the address alone: the sub-address of the entry is ignored
FoundVersion_ByAddress(d, addr) ==
  LET hits == SelectSeq(d, LAMBDA x : x[1][1] = addr[1])
  IN IF hits = <<>> THEN None ELSE hits[Len(hits)][2]

\* fw_versions_dict.get(addr, None), line 134
FoundVersion(d, addr) == IF HasKey(d, addr) THEN Get(d, addr) ELSE None

\* ESSENTIAL_ECUS without Ecu.vsa
ESSENTIAL_ECUS_NoVsa ==
  <<"engine", "eps", "esp", "fwdRadar", "fwdCamera", "electricBrakeBooster">>

\* line 135
ESSENTIAL_ECUS ==
  <<"engine", "eps", "esp", "fwdRadar", "fwdCamera", "vsa", "electricBrakeBooster">>

\* Skipped with the rule of line 144 applied whether or not a version was found
Skipped_AnyNonEssential(candidate, ecu_type, found_version) ==
  \/ /\ ecu_type = "esp"
     /\ InList(<<"RAV4", "COROLLA", "HIGHLANDER">>, candidate)
     /\ found_version = None
  \/ /\ ecu_type = "engine"
     /\ InList(<<"COROLLA_TSS2", "CHR">>, candidate)
     /\ found_version = None
  \/ ~InList(ESSENTIAL_ECUS, ecu_type)

\* the three "continue" of lines 136-145
Skipped(candidate, ecu_type, found_version) ==
  \/ /\ ecu_type = "esp"
     /\ InList(<<"RAV4", "COROLLA", "HIGHLANDER">>, candidate)
     /\ found_version = None
  \/ /\ ecu_type = "engine"
     /\ InList(<<"COROLLA_TSS2", "CHR">>, candidate)
     /\ found_version = None
  \/ /\ ~InList(ESSENTIAL_ECUS, ecu_type)
     /\ found_version = None

\* IsInvalid asking in addition that the model has an entry: a model without
\* fingerprint is dropped
RECURSIVE IsInvalid_NeedsEntry(_, _, _)
IsInvalid_NeedsEntry(candidate, fws, d) ==
  IF fws = <<>> THEN TRUE
  ELSE LET found_version == FoundVersion(d, Tail(fws[1][1]))
       IN IF Skipped(candidate, fws[1][1][1], found_version)
            THEN Tail(fws) # <<>> /\ IsInvalid_NeedsEntry(candidate, Tail(fws), d)
            ELSE IF ~InList(fws[1][2], found_version) THEN TRUE
            ELSE Tail(fws) # <<>> /\ IsInvalid_NeedsEntry(candidate, Tail(fws), d)

\* the inner loop, lines 131-149: TRUE when line 148 appends the candidate
RECURSIVE IsInvalid(_, _, _)
IsInvalid(candidate, fws, d) ==
  IF fws = <<>> THEN FALSE
  ELSE LET ecu == fws[1][1]
           expected_versions == fws[1][2]
           ecu_type == ecu[1]
           addr == Tail(ecu)
           found_version == FoundVersion(d, addr)
       IN IF Skipped(candidate, ecu_type, found_version)
            THEN IsInvalid(candidate, Tail(fws), d)
            ELSE IF ~InList(expected_versions, found_version)
              THEN TRUE
              ELSE IsInvalid(candidate, Tail(fws), d)

\* the list invalid after the outer loop, lines 130-149
RECURSIVE InvalidList(_, _)
InvalidList(candidates, d) ==
  IF candidates = <<>> THEN <<>>
  ELSE (IF IsInvalid(candidates[1][1], candidates[1][2], d)
          THEN <<candidates[1][1]>> ELSE <<>>)
       \o InvalidList(Tail(candidates), d)

\* lines 120-151
match_fw_to_car(fws, table) ==
  LET candidates == table
      invalid == InvalidList(candidates, FwVersionsDict(fws, <<>>))
  IN {candidates[m][1] : m \in 1..Len(candidates)} \ {invalid[m] : m \in 1..Len(invalid)}

\* FW_VERSIONS after a call: candidates is the same dict (line 121) and is only read
TableAfterMatch(fws, table) == table

(***************************************************************************)
(* Inputs of a match.                                                      *)
(***************************************************************************)

\* CarFw messages passed to a match
MaxFw == 2

MatchModels == {"RAV4", "COROLLA", "HIGHLANDER", "COROLLA_TSS2", "CHR", "CIVIC"}

MatchEcuTypes ==
  {"engine", "eps", "esp", "fwdRadar", "fwdCamera", "vsa", "electricBrakeBooster",
   "unknown"}

\* one model of any name with one ecu of any type
SweepTables ==
  {<< <<model, << <<ecu, expected>> >> >> >> :
     model \in MatchModels,
     ecu \in MatchEcuTypes \X {1792} \X {None, 1},
     expected \in {<<1>>, <<1, 2>>}}

ComboEcus == {<<"engine", 1792, None>>, <<"esp", 1792, 1>>, <<"unknown", 1872, None>>}

ComboFingerprints ==
  {[m \in 1..Len(l) |-> <<l[m], <<1, 2>> >>] : l \in ListsOf(ComboEcus, MaxEcus)}

\* one or two models with up to MaxEcus ecus each
ComboTables ==
  {<< <<model, fws>> >> : model \in {"RAV4", "CIVIC"}, fws \in ComboFingerprints}
  \cup {<< <<"RAV4", f1>>, <<"CIVIC", f2>> >> : f1, f2 \in ComboFingerprints}

MatchTables == SweepTables \cup ComboTables

CarFws ==
  [ecu : {"unknown"}, fwVersion : {2, 3}, address : {1792, 1872}, subAddress : {0, 1}]

FwLists == UNION {[1..len -> CarFws] : len \in 0..MaxFw}

IdleDiscover ==
  /\ versions = <<>>
  /\ extra = NoExtra
  /\ reference = <<>>
  /\ timeout = 1
  /\ ecu_types = <<>>
  /\ addrs = <<>>
  /\ parallel_addrs = <<>>
  /\ ei = 1
  /\ n = 1
  /\ fw_versions = <<>>
  /\ car_fw = <<>>
  /\ last_call = NoCall
  /\ attempts = <<>>
  /\ returned = <<>>
  /\ overwrote = FALSE

InitMatch ==
  /\ pc = "match"
  /\ FW_VERSIONS \in MatchTables
  /\ fw_vers \in FwLists
  /\ results = <<>>
  /\ inputs0 = <<fw_vers, FW_VERSIONS>>
  /\ IdleDiscover

\* candidates = match_fw_to_car(fw_vers), line 249
MatchCall ==
  /\ pc = "match"
  /\ results = <<>>
  /\ results' = <<match_fw_to_car(fw_vers, FW_VERSIONS)>>
  /\ FW_VERSIONS' = TableAfterMatch(fw_vers, FW_VERSIONS)
  /\ UNCHANGED <<pc, fw_vers, inputs0>>
  /\ UNCHANGED discoverVars

\* the same call made once more
MatchAgain ==
  /\ pc = "match"
  /\ Len(results) = 1
  /\ results' = Append(results, match_fw_to_car(fw_vers, FW_VERSIONS))
  /\ FW_VERSIONS' = TableAfterMatch(fw_vers, FW_VERSIONS)
  /\ pc' = "matched"
  /\ UNCHANGED <<fw_vers, inputs0>>
  /\ UNCHANGED discoverVars

NextMatch == MatchCall \/ MatchAgain

SpecMatch == InitMatch /\ [][NextMatch]_vars

(***************************************************************************)
(* __main__, lines 248-249: a discovery run followed by a match of the     *)
(* list it returns against the fingerprint table.                          *)
(***************************************************************************)

\* the tables of all brands as one dict model -> dict ecu -> versions
RECURSIVE CombineBrands(_)
CombineBrands(vs) ==
  IF vs = <<>> THEN <<>> ELSE vs[1][2] \o CombineBrands(Tail(vs))

\* an engine ECU at one address without sub-address, with sub-address 0, with
\* sub-address 1
TripEcus == {<<"engine", 1872, None>>, <<"engine", 1872, 0>>, <<"engine", 1872, 1>>}

TripTables == {TableOf(l, <<1>>) : l \in ListsOf(TableBrands \X TripEcus, MaxEcus - 1)}

InitTrip ==
  /\ pc = "begin"
  /\ versions \in TripTables
  /\ extra = NoExtra
  /\ reference = versions
  /\ timeout \in BaseTimeouts
  /\ ecu_types = <<>>
  /\ addrs = <<>>
  /\ parallel_addrs = <<>>
  /\ ei = 1
  /\ n = 1
  /\ fw_versions = <<>>
  /\ car_fw = <<>>
  /\ last_call = NoCall
  /\ attempts = <<>>
  /\ returned = <<>>
  /\ overwrote = FALSE
  /\ IdleMatch

\* candidates = match_fw_to_car(fw_vers), line 249, on the list of line 248
MatchDiscovered ==
  /\ pc = "done"
  /\ fw_vers' = car_fw
  /\ FW_VERSIONS' = CombineBrands(reference)
  /\ results' = <<match_fw_to_car(car_fw, CombineBrands(reference))>>
  /\ inputs0' = <<car_fw, CombineBrands(reference)>>
  /\ pc' = "matched"
  /\ UNCHANGED discoverVars

NextTrip == Next \/ MatchDiscovered

SpecTrip == InitTrip /\ [][NextTrip]_vars

(***************************************************************************)
(* Properties of the discovery run.                                        *)
(***************************************************************************)

\* the plan is complete and the loop nest has not started: line 182 has just run
Planned == pc \in {"query", "build"} /\ n = 1

\* the loop nest of lines 183-194 is over
Queried == pc \in {"build", "done"}

\* the (brand, addr, sub_addr) triples of the table the planner iterates
TableTriples ==
  LET ecus == EcusOfBrands(versions)
  IN {<<ecus[m][1], ecus[m][2][2], ecus[m][2][3]>> : m \in 1..Len(ecus)}

\* the (addr, sub_addr) keys of that table
TableKeys == {<<a[2], a[3]>> : a \in TableTriples}

\* the groups of the plan that hold the triple a, and those that hold the key k
GroupsOf(a) == {g \in 1..Len(addrs) : \E m \in 1..Len(addrs[g]) : addrs[g][m] = a}

GroupsOfKey(k) ==
  {g \in 1..Len(addrs) : \E m \in 1..Len(addrs[g]) : <<addrs[g][m][2], addrs[g][m][3]>> = k}

\* a call was just made: last_call changes exactly at QueryReply and QueryRaise
Called == last_call' # last_call

\* iteration x comes before iteration y in the loop nest
Before(x, y) ==
  \/ x[1] < y[1]
  \/ x[1] = y[1] /\ x[2] < y[2]
  \/ x[1] = y[1] /\ x[2] = y[2] /\ x[3] < y[3]

\* C1: a transport call that raises leaves fw_versions unchanged and the run goes on
\* (no exception leaves the loop nest); a call that returns has its whole mapping in
\* fw_versions right after it; and when the loop nest is over every key that some
\* successful call returned is in fw_versions, whatever calls raised before or after.
C1_FailureIsolated ==
  /\ [][Called =>
          IF last_call'.raised
            THEN fw_versions' = fw_versions /\ pc' \in {"query", "build"}
            ELSE \A k \in Keys(last_call'.data) :
                   HasKey(fw_versions', k)
                   /\ Get(fw_versions', k) = Get(last_call'.data, k)]_vars
  /\ [](pc # "raised")
  /\ [](Queried => DOMAIN returned \subseteq Keys(fw_versions))

\* a finished run whose last call raised and whose result holds what the calls
\* before it returned
C1_Witness ==
  /\ pc = "done"
  /\ last_call # NoCall
  /\ last_call.raised
  /\ fw_versions # <<>>
  /\ Keys(fw_versions) = DOMAIN returned

\* C2 as stated: every (address, subAddress) of the table is in exactly one plan
\* group, in the parallel group when it has no sub-address and else in a singleton
\* group of its own.
C2_KeyInOneGroup ==
  Planned =>
    LET keys == TableKeys
    IN \A k \in keys :
         /\ Cardinality(GroupsOfKey(k)) = 1
         /\ k[2] = None => GroupsOfKey(k) = {1}
         /\ k[2] # None => \A g \in GroupsOfKey(k) : g > 1 /\ Len(addrs[g]) = 1

\* C2 amended: every (brand, address, subAddress) triple of the table the planner
\* iterates is in exactly one plan group and once in it, a triple without sub-address
\* in the parallel group (the first), a triple with a sub-address alone in a singleton
\* group after it; and the plan holds nothing else.
C2_TripleInOneGroup ==
  Planned =>
    LET triples == TableTriples
    IN /\ \A a \in triples :
            /\ Cardinality(GroupsOf(a)) = 1
            /\ \A g \in GroupsOf(a) :
                 /\ Cardinality({m \in 1..Len(addrs[g]) : addrs[g][m] = a}) = 1
                 /\ a[3] = None => g = 1
                 /\ a[3] # None => g > 1 /\ addrs[g] = <<a>>
       /\ \A g \in 1..Len(addrs) : \A m \in 1..Len(addrs[g]) : addrs[g][m] \in triples

\* a plan for a table where two brands list the same sub-addressed ECU
C2_Witness ==
  /\ Planned
  /\ Len(addrs) = 3
  /\ \E k \in TableKeys : k[2] # None /\ Cardinality(GroupsOfKey(k)) = 2

\* C3: every transport call whose address list holds an address with a sub-address
\* holds that one address only.
C3_SubaddressedAlone ==
  last_call # NoCall =>
    ((\E m \in 1..Len(last_call.addrs) : last_call.addrs[m][2] # None)
       => Len(last_call.addrs) = 1)

\* a call for a sub-addressed ECU, made after the parallel group was queried
C3_Witness ==
  /\ last_call # NoCall
  /\ last_call.addrs[1][2] # None
  /\ parallel_addrs # <<>>
  /\ \E k \in DOMAIN returned : k[2] = None

\* C6: every transport call of plan group 0 is given twice the base timeout and
\* every call of a later group the base timeout.
C6_TimeoutDoubling ==
  last_call # NoCall =>
    /\ last_call.it[1] = 0 => last_call.t = 2 * timeout
    /\ last_call.it[1] > 0 => last_call.t = timeout

\* a call of a later group, after a call of group 0 was answered
C6_Witness ==
  /\ last_call # NoCall
  /\ last_call.it[1] > 0
  /\ last_call.t = timeout
  /\ \E k \in DOMAIN returned : k[2] = None

\* the control points in the order the run passes them
Rank(p) ==
  CASE p = "begin" -> 0
    [] p = "plan" -> 1
    [] p = "query" -> 2
    [] p = "build" -> 3
    [] p = "done" -> 4
    [] OTHER -> 5

\* a step moves the run forward: to a later control point, or to a later pass of the
\* planner's loops or a later iteration of the loop nest, both bounded
StepAdvances ==
  \/ Rank(pc') > Rank(pc) /\ pc' # "raised"
  \/ /\ pc = "plan" /\ pc' = "plan"
     /\ versions' = versions
     /\ ei < ei' /\ ei' <= Len(EcusOfBrands(versions)) + 1
  \/ /\ pc = "query" /\ pc' = "query"
     /\ addrs' = addrs
     /\ n < n' /\ n' <= Len(Iterations(addrs))

\* until the run is done one of its actions can be taken
CanStep ==
  \/ pc \in {"begin", "plan", "build"}
  \/ pc = "query" /\ n <= Len(Iterations(addrs))

\* C7: the run terminates (every step advances it in a bounded order and a step can be
\* taken until it is done), and when the loop nest is over each iteration (group,
\* chunk, catalog entry) with a non-empty filtered address list has made exactly one
\* transport call and every other iteration none, whatever calls raised.
C7_ExactlyOnce ==
  /\ [][StepAdvances]_vars
  /\ [](pc = "done" \/ CanStep)
  /\ [](Queried =>
          LET its == Iterations(addrs)
          IN \A m \in 1..Len(its) :
               attempts[m] = IF QueryAddrs(addrs, its[m]) # <<>> THEN 1 ELSE 0)

\* a finished run with a raising call, several calls and an iteration without call
C7_Witness ==
  /\ pc = "done"
  /\ last_call # NoCall
  /\ last_call.raised
  /\ \E x, y \in 1..Len(attempts) : x # y /\ attempts[x] = 1 /\ attempts[y] = 1
  /\ \E x \in 1..Len(attempts) : attempts[x] = 0

\* C8: the calls are made in the order of the loop nest (group, then chunk, then
\* catalog entry); when the loop nest is over fw_versions holds exactly the keys that
\* some successful call returned, each with the version of the last successful call
\* whose reply held it.
C8_LastWriteWins ==
  /\ [][Called /\ last_call # NoCall => Before(last_call.it, last_call'.it)]_vars
  /\ [](Queried =>
          /\ Keys(fw_versions) = DOMAIN returned
          /\ \A k \in DOMAIN returned : Get(fw_versions, k) = returned[k])

\* a finished run in which a later reply replaced the version of an earlier one
C8_Witness ==
  /\ pc = "done"
  /\ overwrote
  /\ fw_versions # <<>>

(***************************************************************************)
(* Properties of match_fw_to_car.                                          *)
(***************************************************************************)

\* the messages of fw_vers about the ECU key k = <<addr, sub_addr>>; a message whose
\* subAddress reads 0 is about the ECU without sub-address
Sightings(k) ==
  {m \in 1..Len(fw_vers) :
     /\ fw_vers[m].address = k[1]
     /\ (IF fw_vers[m].subAddress = 0 THEN None ELSE fw_vers[m].subAddress) = k[2]}

\* the version observed for k, that of the last message about it
Observed(k) ==
  fw_vers[CHOOSE m \in Sightings(k) : \A x \in Sightings(k) : x <= m].fwVersion

KeyOf(entry) == <<entry[1][2], entry[1][3]>>

\* the entry has an observed version, which is (not) among the expected ones
Matches(entry) ==
  Sightings(KeyOf(entry)) # {}
  /\ \E x \in 1..Len(entry[2]) : entry[2][x] = Observed(KeyOf(entry))

Mismatches(entry) ==
  Sightings(KeyOf(entry)) # {}
  /\ \A x \in 1..Len(entry[2]) : entry[2][x] # Observed(KeyOf(entry))

\* a missing observation of this ECU type is tolerated for this model
Tolerated(model, ecu_type) ==
  \/ ecu_type \notin {"engine", "eps", "esp", "fwdRadar", "fwdCamera", "vsa",
                      "electricBrakeBooster"}
  \/ ecu_type = "esp" /\ model \in {"RAV4", "COROLLA", "HIGHLANDER"}
  \/ ecu_type = "engine" /\ model \in {"COROLLA_TSS2", "CHR"}

Entries(c) == {FW_VERSIONS[c][2][m] : m \in 1..Len(FW_VERSIONS[c][2])}

\* C4: a model with an entry whose key has an observed version outside the entry's
\* expected versions is not in the result, whatever the ECU type and the model; a
\* model all of whose entries have an observed version among the expected ones is.
C4_PresentExact ==
  results # <<>> =>
    \A c \in 1..Len(FW_VERSIONS) :
      /\ (\E en \in Entries(c) : Mismatches(en)) => FW_VERSIONS[c][1] \notin results[1]
      /\ (\A en \in Entries(c) : Matches(en)) => FW_VERSIONS[c][1] \in results[1]

\* a model on the esp allow-list is dropped for a wrong esp version and for a wrong
\* version of a non-essential ECU
C4_Witness ==
  /\ results # <<>>
  /\ \E c \in 1..Len(FW_VERSIONS) :
       /\ FW_VERSIONS[c][1] = "RAV4"
       /\ \E en \in Entries(c) : en[1][1] = "esp" /\ Mismatches(en)
       /\ \E en \in Entries(c) : en[1][1] = "unknown" /\ Mismatches(en)
       /\ FW_VERSIONS[c][1] \notin results[1]

\* C5: a model with an entry that has no observation and is not tolerated (ECU type
\* in the essential set, and not esp for RAV4, COROLLA, HIGHLANDER nor engine for
\* COROLLA_TSS2, CHR) is not in the result; an entry without observation that is
\* tolerated does not disqualify: a model whose entries are each either tolerated
\* and unobserved or observed with an expected version is in the result.
C5_MissingObservation ==
  results # <<>> =>
    \A c \in 1..Len(FW_VERSIONS) :
      /\ (\E en \in Entries(c) :
            Sightings(KeyOf(en)) = {} /\ ~Tolerated(FW_VERSIONS[c][1], en[1][1]))
           => FW_VERSIONS[c][1] \notin results[1]
      /\ (\A en \in Entries(c) :
            IF Sightings(KeyOf(en)) = {}
              THEN Tolerated(FW_VERSIONS[c][1], en[1][1])
              ELSE Matches(en))
           => FW_VERSIONS[c][1] \in results[1]

\* two models with an unobserved esp: the one on the allow-list stays, the other goes
C5_Witness ==
  /\ results # <<>>
  /\ results[1] = {"RAV4"}
  /\ Len(FW_VERSIONS) = 2
  /\ \A c \in 1..Len(FW_VERSIONS) :
       \E en \in Entries(c) : en[1][1] = "esp" /\ Sightings(KeyOf(en)) = {}

\* C10: the result holds only models of the table, and every model without
\* fingerprint entries.
C10_CandidateBounds ==
  results # <<>> =>
    /\ results[1] \subseteq {FW_VERSIONS[c][1] : c \in 1..Len(FW_VERSIONS)}
    /\ \A c \in 1..Len(FW_VERSIONS) :
         FW_VERSIONS[c][2] = <<>> => FW_VERSIONS[c][1] \in results[1]

\* a model without entries stays while the other model of the table is dropped
C10_Witness ==
  /\ results # <<>>
  /\ \E c \in 1..Len(FW_VERSIONS) :
       FW_VERSIONS[c][2] = <<>> /\ results[1] = {FW_VERSIONS[c][1]}
  /\ Len(FW_VERSIONS) = 2

\* the messages of fw_vers about the ECUs that model c lists, in their order
Relevant(c) ==
  SelectSeq(fw_vers,
            LAMBDA f : \E en \in Entries(c) :
              KeyOf(en) = <<f.address, IF f.subAddress = 0 THEN None ELSE f.subAddress>>)

\* C18: the verdict on a model is the one match_fw_to_car gives on the messages about
\* the ECUs the model lists alone: observations of other ECUs neither disqualify the
\* model nor keep it, so two observation lists that agree on the model's keys give
\* the same verdict.
C18_IrrelevantObservations ==
  results # <<>> =>
    \A c \in 1..Len(FW_VERSIONS) :
      (FW_VERSIONS[c][1] \in results[1])
        <=> (FW_VERSIONS[c][1] \in match_fw_to_car(Relevant(c), FW_VERSIONS))

\* a model that stays on a matching observation while the list also holds an
\* observation of an ECU it does not list
C18_Witness ==
  /\ results # <<>>
  /\ \E c \in 1..Len(FW_VERSIONS) :
       /\ FW_VERSIONS[c][1] \in results[1]
       /\ Relevant(c) # <<>>
       /\ Len(Relevant(c)) < Len(fw_vers)

(***************************************************************************)
(* Properties of the discovery run, continued.                             *)
(***************************************************************************)

\* the chunk of the plan that iteration it = <<i, c, r>> works on, and the brand of
\* its catalog entry
ChunkOf(it) == chunks(addrs[it[1] + 1], ChunkSize)[it[2]]

BrandOf(it) == REQUESTS[it[3]][1]

\* the positions of a chunk whose triple is tagged with the brand or with 'any', in
\* increasing order
Tagged(chunk, brand) ==
  SelectSeq([m \in 1..Len(chunk) |-> m],
            LAMBDA m : chunk[m][1] = brand \/ chunk[m][1] = "any")

CatalogBrands == {REQUESTS[r][1] : r \in 1..Len(REQUESTS)}

\* the (address, subAddress) pairs of the plan's triples whose brand is 'any' or has a
\* catalog entry
Sendable ==
  UNION {{<<addrs[g][x][2], addrs[g][x][3]>> :
            x \in {y \in 1..Len(addrs[g]) : addrs[g][y][1] \in CatalogBrands \cup {"any"}}} :
         g \in 1..Len(addrs)}

\* C11: a transport call made for a chunk and a catalog entry carries exactly the
\* addresses of the chunk tagged with the entry's brand or with 'any', in chunk order,
\* as (address, subAddress) pairs; when the loop nest is over a call was made for a
\* (chunk, entry) iff the chunk holds such an address; so an address tagged 'any' is
\* sent under every entry and every address sent has a triple in the plan whose brand
\* is 'any' or has a catalog entry.
C11_VendorFilter ==
  /\ last_call # NoCall =>
       LET chunk == ChunkOf(last_call.it)
           pos == Tagged(chunk, BrandOf(last_call.it))
           ok == Sendable
       IN /\ last_call.addrs =
               [m \in 1..Len(pos) |-> <<chunk[pos[m]][2], chunk[pos[m]][3]>>]
          /\ \A m \in 1..Len(last_call.addrs) : last_call.addrs[m] \in ok
  /\ Queried =>
       LET its == Iterations(addrs)
       IN \A m \in 1..Len(its) :
            (attempts[m] >= 1) <=> (Tagged(ChunkOf(its[m]), BrandOf(its[m])) # <<>>)

\* a finished run over a chunk holding an 'any' address and an address of a brand
\* without catalog entry: the last call, a subaru one, carried the 'any' address only
C11_Witness ==
  /\ pc = "done"
  /\ last_call # NoCall
  /\ BrandOf(last_call.it) = "subaru"
  /\ \E m \in 1..Len(addrs[1]) : addrs[1][m][1] = "any"
  /\ \E m \in 1..Len(addrs[1]) : addrs[1][m][1] \notin CatalogBrands \cup {"any"}
  /\ Len(last_call.addrs) < Len(addrs[1])

\* C12: every transport call carries at least 1 and at most 128 addresses, all taken
\* from its chunk's slice of the group; the chunks of a group are the consecutive
\* slices of 128 elements of the group in its order, the last one holding the 1 to 128
\* elements that are left, so they are disjoint and cover the group.
C12_ChunkCapacity ==
  /\ last_call # NoCall =>
       LET group == addrs[last_call.it[1] + 1]
           lo == (last_call.it[2] - 1) * 128
           slice == {<<group[x][2], group[x][3]>> :
                       x \in {y \in 1..Len(group) : lo < y /\ y <= lo + 128}}
       IN /\ 1 <= Len(last_call.addrs) /\ Len(last_call.addrs) <= 128
          /\ \A m \in 1..Len(last_call.addrs) : last_call.addrs[m] \in slice
  /\ Planned =>
       \A g \in 1..Len(addrs) :
         LET cs == chunks(addrs[g], ChunkSize)
         IN /\ \A c \in 1..Len(cs) :
                 /\ 1 <= Len(cs[c]) /\ Len(cs[c]) <= 128
                 /\ c < Len(cs) => Len(cs[c]) = 128
                 /\ \A m \in 1..Len(cs[c]) : cs[c][m] = addrs[g][(c - 1) * 128 + m]
            /\ Len(addrs[g]) = IF cs = <<>> THEN 0
                               ELSE (Len(cs) - 1) * 128 + Len(cs[Len(cs)])

\* a call for the second chunk of a parallel group of more than 128 addresses
C12_Witness ==
  /\ last_call # NoCall
  /\ last_call.it[2] = 2
  /\ Len(addrs[1]) > 128
  /\ Len(last_call.addrs) >= 1

\* the list of addresses holds one with, one without, a sub-address
HasSub(l) == \E m \in 1..Len(l) : l[m][2] # None

HasPlain(l) == \E m \in 1..Len(l) : l[m][2] = None

\* the first pass of the planner's loops that meets the triple a
FirstPass(a) ==
  LET ecus == EcusOfBrands(versions)
  IN CHOOSE m \in 1..Len(ecus) :
       /\ <<ecus[m][1], ecus[m][2][2], ecus[m][2][3]>> = a
       /\ \A x \in 1..(m - 1) : <<ecus[x][1], ecus[x][2][2], ecus[x][2][3]>> # a

\* C13: once a transport call has carried a sub-addressed address no later call carries
\* an address without sub-address, the calls follow the order of the plan's groups, and
\* the singleton groups are in the order in which the planner's loops first met them.
C13_ParallelFirst ==
  /\ [][Called /\ last_call # NoCall =>
          /\ HasSub(last_call.addrs) => ~HasPlain(last_call'.addrs)
          /\ last_call.it[1] <= last_call'.it[1]]_vars
  /\ [](Planned =>
          \A g, h \in {x \in 1..Len(addrs) : addrs[x] # <<>> /\ addrs[x][1][3] # None} :
            g < h => FirstPass(addrs[g][1]) < FirstPass(addrs[h][1]))

\* a finished run whose last call carried a sub-addressed address, after an address
\* of the parallel group was answered
C13_Witness ==
  /\ pc = "done"
  /\ last_call # NoCall
  /\ last_call.it[1] >= 1
  /\ HasSub(last_call.addrs)
  /\ \E k \in DOMAIN returned : k[2] = None

\* C17: the first group of the plan is the parallel group, also when it is empty, and
\* holds no sub-addressed triple; a transport call carrying a sub-addressed address
\* belongs to a later group and is given the base timeout, never twice the base.
C17_ExtendedTimeoutScope ==
  /\ Planned =>
       /\ Len(addrs) >= 1
       /\ addrs[1] = parallel_addrs
       /\ \A m \in 1..Len(addrs[1]) : addrs[1][m][3] = None
  /\ (last_call # NoCall /\ HasSub(last_call.addrs)) =>
       /\ last_call.it[1] >= 1
       /\ last_call.t = timeout
       /\ last_call.t # 2 * timeout

\* a call for a sub-addressed ECU of a table that lists sub-addressed ECUs only
C17_Witness ==
  /\ last_call # NoCall
  /\ HasSub(last_call.addrs)
  /\ addrs[1] = <<>>
  /\ Len(addrs) >= 2

\* the (addr, sub_addr) keys of a brand-keyed table, and those of the plan
KeysOfTable(t) ==
  LET ecus == EcusOfBrands(t)
  IN {<<ecus[m][2][2], ecus[m][2][3]>> : m \in 1..Len(ecus)}

PlanKeys ==
  UNION {{<<addrs[g][x][2], addrs[g][x][3]>> : x \in 1..Len(addrs[g])} : g \in 1..Len(addrs)}

\* C14: every (address, subAddress) of the reference table and every one of the extra
\* probe set is in the plan, whatever brand the extra set is filed under.
C14_ExtraMerged ==
  Planned =>
    /\ KeysOfTable(reference) \subseteq PlanKeys
    /\ extra # NoExtra => KeysOfTable(extra) \subseteq PlanKeys

\* the ecu_type of the first entry of the iterated table that has the key k
FirstType(k) ==
  LET ecus == EcusOfBrands(versions)
      first == CHOOSE m \in 1..Len(ecus) :
                 /\ <<ecus[m][2][2], ecus[m][2][3]>> = k
                 /\ \A x \in 1..(m - 1) : <<ecus[x][2][2], ecus[x][2][3]>> # k
  IN ecus[first][2][1]

\* C15: the ecu_type recorded for a key, and reported for it in the returned CarFw
\* list, is that of the first entry with the key in table-iteration order.
C15_FirstWriterWins ==
  /\ Planned => \A k \in TableKeys : Get(ecu_types, k) = FirstType(k)
  /\ pc = "done" =>
       \A m \in 1..Len(car_fw) : car_fw[m].ecu = FirstType(fw_versions[m][1])

\* C19 as stated: for an empty table and no extra probe set the plan has no group.
C19_EmptyPlanNoGroups ==
  (Planned /\ reference = <<>> /\ extra = NoExtra) => addrs = <<>>

\* C19 amended: for an empty table and no extra probe set the plan is one group, the
\* empty parallel group; the loop nest has no iteration, no transport call is made and
\* the returned list is empty.
C19_EmptyPlanOneEmptyGroup ==
  (reference = <<>> /\ extra = NoExtra) =>
    /\ Planned => addrs = << <<>> >> /\ Iterations(addrs) = <<>> /\ pc = "build"
    /\ last_call = NoCall
    /\ pc = "done" => car_fw = <<>> /\ fw_versions = <<>> /\ addrs = << <<>> >>

\* the finished run on the empty table
C19_Witness ==
  /\ pc = "done"
  /\ reference = <<>>
  /\ extra = NoExtra
  /\ Len(addrs) = 1
  /\ car_fw = <<>>

\* C20: every entry of REQUESTS has at least one request and as many response
\* prefixes as requests, and every transport call is given the request sequence and
\* the response-prefix sequence of the catalog entry of its iteration, of equal length.
C20_CatalogWellFormed ==
  /\ \A r \in 1..Len(REQUESTS) :
       Len(REQUESTS[r][2]) >= 1 /\ Len(REQUESTS[r][3]) = Len(REQUESTS[r][2])
  /\ last_call # NoCall =>
       /\ Len(last_call.request) >= 1
       /\ Len(last_call.response) = Len(last_call.request)
       /\ \E r \in 1..Len(REQUESTS) :
            /\ r = last_call.it[3]
            /\ last_call.request = REQUESTS[r][2]
            /\ last_call.response = REQUESTS[r][3]

\* a call under the four-step toyota entry
C20_Witness ==
  /\ last_call # NoCall
  /\ Len(last_call.request) = 4
  /\ Len(last_call.response) = 4
  /\ BrandOf(last_call.it) = "toyota"

(***************************************************************************)
(* Properties of a discovery run followed by a match.                      *)
(***************************************************************************)

\* the key of the fingerprint entry is one under which discovery recorded a version,
\* and the entry accepts that version
Accepted(entry) ==
  /\ HasKey(fw_versions, KeyOf(entry))
  /\ \E x \in 1..Len(entry[2]) : entry[2][x] = Get(fw_versions, KeyOf(entry))

\* C16: match_fw_to_car looks every version that discovery recorded up under the key
\* it was recorded under, sub-address None, 0 or more: a model whose entries all
\* accept the version recorded under their key is not disqualified.
C16_KeyRoundTrip ==
  pc = "matched" =>
    \A c \in 1..Len(FW_VERSIONS) :
      (\A en \in Entries(c) : Accepted(en)) => FW_VERSIONS[c][1] \in results[1]

====
